---- MODULE Spec2Model ----
(***************************************************************************)
(* Model of klask's output protocol (src/output.rs): the producer side     *)
(* (progress_bar, progress_bar_with_id, OutputType::send, send_message)    *)
(* writing to the child's stdout, and the GUI side (Output::parse,         *)
(* OutputType::parse) decoding chunks of it into the entry log Output.0    *)
(* and drawing the log (Output::update, format_output).                    *)
(*                                                                         *)
(* A Rust String is a sequence of characters; a character is a one-element *)
(* TLA+ string. Three characters are named: MAGIC (U+5FFFE, 4 bytes in     *)
(* UTF-8), EACUTE (U+00E9, 2 bytes) and ESC (U+001B); every character but  *)
(* MAGIC and EACUTE is ASCII (1 byte).                                     *)
(*                                                                         *)
(* Specifications: Spec (well-formed streams, many writes), SpecWide (few  *)
(* writes, many inputs), SpecProducer (progress_bar under any hash),       *)
(* SpecRaw (streams that are not well formed), SpecCut (a stream decoded   *)
(* in two chunks cut anywhere) and SpecRender (frames).                    *)
(***************************************************************************)
EXTENDS Integers, Sequences, FiniteSets, TLC

\* ------------------------------------------------------------------------
\* Characters and strings
\* ------------------------------------------------------------------------

\* const MAGIC: char = '\u{5FFFE}'
MAGIC == "U+5FFFE"

\* A two-byte character, standing for any non-ASCII text the child may print.
EACUTE == "U+00E9"

NL == "\n"

\* char::len_utf8
LenUtf8(c) == IF c = MAGIC THEN 4 ELSE IF c = EACUTE THEN 2 ELSE 1

Digits == <<"0", "1", "2", "3", "4", "5", "6", "7", "8", "9">>

IsDigit(c) == \E i \in 1..10 : Digits[i] = c

DigitVal(c) == (CHOOSE i \in 1..10 : Digits[i] = c) - 1

RECURSIVE Concat(_)
\* The concatenation of a sequence of strings.
Concat(ss) == IF ss = <<>> THEN <<>> ELSE Head(ss) \o Concat(Tail(ss))

RECURSIVE SplitFrom(_, _)
\* str::split(MAGIC), with cur the field being accumulated: the fields between
\* markers, in order; n markers give n + 1 fields, empty ones included.
SplitFrom(s, cur) ==
    IF s = <<>> THEN <<cur>>
    ELSE IF Head(s) = MAGIC THEN <<cur>> \o SplitFrom(Tail(s), <<>>)
    ELSE SplitFrom(Tail(s), Append(cur, Head(s)))

Split(s) == SplitFrom(s, <<>>)

\* ------------------------------------------------------------------------
\* u64: to_string and str::parse::<u64>
\* ------------------------------------------------------------------------

\* u64::MAX = 18446744073709551615, as its decimal digits.
U64MaxStr == <<"1","8","4","4","6","7","4","4","0","7","3","7","0","9","5","5","1","6","1","5">>

RECURSIVE StripZeros(_)
StripZeros(s) == IF s # <<>> /\ Head(s) = "0" THEN StripZeros(Tail(s)) ELSE s

RECURSIVE DigitsLeq(_, _)
\* For two digit strings of the same length: a <= b as numbers.
DigitsLeq(a, b) ==
    IF a = <<>> THEN TRUE
    ELSE IF DigitVal(Head(a)) < DigitVal(Head(b)) THEN TRUE
    ELSE IF DigitVal(Head(a)) > DigitVal(Head(b)) THEN FALSE
    ELSE DigitsLeq(Tail(a), Tail(b))

\* Whether a non-empty digit string denotes a number that fits in a u64.
FitsU64(ds) ==
    LET z == StripZeros(ds) IN
    \/ Len(z) < Len(U64MaxStr)
    \/ Len(z) = Len(U64MaxStr) /\ DigitsLeq(z, U64MaxStr)

RECURSIVE DigitsVal(_, _)
\* The number a digit string denotes, acc being the value of the digits read.
DigitsVal(ds, acc) ==
    IF ds = <<>> THEN acc ELSE DigitsVal(Tail(ds), acc * 10 + DigitVal(Head(ds)))

IsDigits(s) == \A i \in 1..Len(s) : IsDigit(s[i])

\* str::parse::<u64>: an optional '+', then one or more decimal digits, the
\* number fitting in 64 bits; anything else (the empty string, a lone sign,
\* a '-', another character, overflow) is Err.
ParseU64(s) ==
    LET ds == IF s # <<>> /\ Head(s) = "+" THEN Tail(s) ELSE s IN
    IF ds # <<>> /\ IsDigits(ds) /\ FitsU64(ds)
    THEN [ok |-> TRUE, val |-> DigitsVal(ds, 0)]
    ELSE [ok |-> FALSE, val |-> 0]

RECURSIVE U64ToString(_)
\* u64::to_string: the decimal digits, no sign, no leading zero.
U64ToString(n) ==
    IF n < 10 THEN <<Digits[n + 1]>>
    ELSE Append(U64ToString(n \div 10), Digits[(n % 10) + 1])

\* ------------------------------------------------------------------------
\* f32: to_string and str::parse::<f32>
\*
\* A finite f32 is held as its shortest decimal, (-1)^neg * m / 10^e with m not
\* a multiple of 10 unless e = 0: what Display prints and what parse reads back.
\* The two agree for every decimal of at most 6 significant digits (FLT_DIG),
\* which every decimal of this model is.
\* ------------------------------------------------------------------------

RECURSIVE Pow10(_)
Pow10(n) == IF n = 0 THEN 1 ELSE 10 * Pow10(n - 1)

RECURSIVE Normalize(_, _, _)
Normalize(neg, m, e) ==
    IF m = 0 THEN [k |-> "num", neg |-> neg, m |-> 0, e |-> 0]
    ELSE IF e > 0 /\ m % 10 = 0 THEN Normalize(neg, m \div 10, e - 1)
    ELSE IF e < 0 THEN Normalize(neg, m * 10, e + 1)
    ELSE [k |-> "num", neg |-> neg, m |-> m, e |-> e]

\* The f32 value m / 10^e.
F32(m, e) == Normalize(FALSE, m, e)

NaN == [k |-> "nan", neg |-> FALSE, m |-> 0, e |-> 0]

Infinity(neg) == [k |-> "inf", neg |-> neg, m |-> 0, e |-> 0]

\* f32::default()
F32Default == F32(0, 0)

\* char::to_ascii_lowercase, on the letters the float grammar reads.
Lower(c) ==
    CASE c = "N" -> "n" [] c = "A" -> "a" [] c = "I" -> "i" [] c = "F" -> "f"
      [] c = "T" -> "t" [] c = "Y" -> "y" [] c = "E" -> "e" [] OTHER -> c

LowerStr(s) == [i \in 1..Len(s) |-> Lower(s[i])]

\* The index of the first character of s that is in set cs, or 0.
IndexOf(s, cs) ==
    IF \E i \in 1..Len(s) : s[i] \in cs
    THEN CHOOSE i \in 1..Len(s) : s[i] \in cs /\ \A j \in 1..(i - 1) : s[j] \notin cs
    ELSE 0

\* A signed run of digits, as the exponent of a float is written.
ParseExponent(s) ==
    LET neg == s # <<>> /\ Head(s) = "-"
        ds  == IF s # <<>> /\ Head(s) \in {"+", "-"} THEN Tail(s) ELSE s
    IN  IF ds # <<>> /\ IsDigits(ds)
        THEN [ok |-> TRUE, val |-> IF neg THEN 0 - DigitsVal(ds, 0) ELSE DigitsVal(ds, 0)]
        ELSE [ok |-> FALSE, val |-> 0]

\* str::parse::<f32> (core::num::dec2flt): an optional sign, then either
\* digits with an optional '.' (at least one digit in all) and an optional
\* exponent, or one of nan, inf, infinity in any case.
ParseF32(s) ==
    LET neg  == s # <<>> /\ Head(s) = "-"
        r    == IF s # <<>> /\ Head(s) \in {"+", "-"} THEN Tail(s) ELSE s
        ei   == IndexOf(r, {"e", "E"})
        man  == IF ei = 0 THEN r ELSE SubSeq(r, 1, ei - 1)
        ex   == IF ei = 0 THEN [ok |-> TRUE, val |-> 0]
                ELSE ParseExponent(SubSeq(r, ei + 1, Len(r)))
        di   == IndexOf(man, {"."})
        int  == IF di = 0 THEN man ELSE SubSeq(man, 1, di - 1)
        frac == IF di = 0 THEN <<>> ELSE SubSeq(man, di + 1, Len(man))
        low  == LowerStr(r)
    IN  IF low = <<"n", "a", "n">> THEN [ok |-> TRUE, val |-> NaN]
        ELSE IF low \in {<<"i", "n", "f">>, <<"i", "n", "f", "i", "n", "i", "t", "y">>}
             THEN [ok |-> TRUE, val |-> Infinity(neg)]
        ELSE IF IsDigits(int) /\ IsDigits(frac) /\ Len(int) + Len(frac) > 0 /\ ex.ok
             THEN [ok |-> TRUE,
                   val |-> Normalize(neg, DigitsVal(int \o frac, 0), Len(frac) - ex.val)]
        ELSE [ok |-> FALSE, val |-> F32Default]

RECURSIVE PadZeros(_, _)
PadZeros(ds, width) == IF Len(ds) >= width THEN ds ELSE PadZeros(<<"0">> \o ds, width)

\* f32::to_string (Display): NaN, inf, -inf, or the shortest decimal that
\* reads back as the value, with no exponent and no trailing ".0".
F32ToString(v) ==
    LET sign == IF v.neg THEN <<"-">> ELSE <<>> IN
    IF v.k = "nan" THEN <<"N", "a", "N">>
    ELSE IF v.k = "inf" THEN sign \o <<"i", "n", "f">>
    ELSE sign \o U64ToString(v.m \div Pow10(v.e))
              \o (IF v.e = 0 THEN <<>>
                  ELSE <<".">> \o PadZeros(U64ToString(v.m % Pow10(v.e)), v.e))

\* ------------------------------------------------------------------------
\* The protocol: OutputType, send_message, OutputType::send
\* ------------------------------------------------------------------------

\* OutputType::Text(String)
Text(s) == [kind |-> "Text", text |-> s, value |-> F32Default]

\* OutputType::ProgressBar(String, f32)
ProgressBar(desc, value) == [kind |-> "ProgressBar", text |-> desc, value |-> value]

\* OutputType::PROGRESS_BAR_STR = "progress-bar"
PROGRESS_BAR_STR == <<"p", "r", "o", "g", "r", "e", "s", "s", "-", "b", "a", "r">>

RECURSIVE SendData(_)
\* The loop of send_message: MAGIC then d, for each d of data.
SendData(data) ==
    IF data = <<>> THEN <<>> ELSE <<MAGIC>> \o Head(data) \o SendData(Tail(data))

\* send_message whose last line is the bare newline: println!() for
\* println!("{}", MAGIC).
send_message_NoFinalMarker(data) == SendData(data) \o <<NL>>

\* send_message: what it prints: the fields, each after a MAGIC, then MAGIC and
\* the newline of println!.
send_message(data) == SendData(data) \o <<MAGIC, NL>>

\* OutputType::send: what it prints to stdout.
send(self, id) ==
    IF self.kind = "Text" THEN self.text
    ELSE send_message(<<U64ToString(id), PROGRESS_BAR_STR, self.text,
                        F32ToString(self.value)>>)

\* ------------------------------------------------------------------------
\* Decoding: OutputType::parse and Output::parse
\*
\* The iterator str.split(MAGIC) is the sequence of fields and the number pos
\* of fields already taken; next() past the end is None and takes nothing.
\* ------------------------------------------------------------------------

HasNext(fields, pos) == pos < Len(fields)

\* iter.next().unwrap_or_default()
NextOrDefault(fields, pos) == IF HasNext(fields, pos) THEN fields[pos + 1] ELSE <<>>

\* iter.next().map(|s| s.parse().ok()).flatten().unwrap_or_default()
NextValue(fields, pos) ==
    IF HasNext(fields, pos) /\ ParseF32(fields[pos + 1]).ok
    THEN ParseF32(fields[pos + 1]).val
    ELSE F32Default

Min(a, b) == IF a < b THEN a ELSE b

\* OutputType::parse that unwraps the value: a missing or bad value field is a
\* panic instead of 0.0.
OutputTypeParseStrict(fields, pos) ==
    IF ~HasNext(fields, pos)
    THEN [res |-> "none", new |-> Text(<<>>), pos |-> pos]
    ELSE IF /\ fields[pos + 1] = PROGRESS_BAR_STR
            /\ HasNext(fields, pos + 2)
            /\ ParseF32(fields[pos + 3]).ok
    THEN [res |-> "some",
          new |-> ProgressBar(fields[pos + 2], ParseF32(fields[pos + 3]).val),
          pos |-> pos + 3]
    ELSE [res |-> "panic", new |-> Text(<<>>), pos |-> pos + 1]

\* OutputType::parse that skips a message of unknown tag instead of
\* panicking.
OutputTypeParseLenient(fields, pos) ==
    IF ~HasNext(fields, pos)
    THEN [res |-> "none", new |-> Text(<<>>), pos |-> pos]
    ELSE IF fields[pos + 1] = PROGRESS_BAR_STR
    THEN [res |-> "some",
          new |-> ProgressBar(NextOrDefault(fields, pos + 1),
                              NextValue(fields, Min(pos + 2, Len(fields)))),
          pos |-> Min(pos + 3, Len(fields))]
    ELSE [res |-> "none", new |-> Text(<<>>), pos |-> pos + 1]

\* OutputType::parse(iter): res is "some" (with the payload new), "none" (the
\* iterator was at its end) or "panic" (a tag other than progress-bar); pos is
\* the iterator's position afterwards.
OutputTypeParse(fields, pos) ==
    IF ~HasNext(fields, pos)
    THEN [res |-> "none", new |-> Text(<<>>), pos |-> pos]
    ELSE IF fields[pos + 1] = PROGRESS_BAR_STR
    THEN [res |-> "some",
          new |-> ProgressBar(NextOrDefault(fields, pos + 1),
                              NextValue(fields, Min(pos + 2, Len(fields)))),
          pos |-> Min(pos + 3, Len(fields))]
    ELSE [res |-> "panic", new |-> Text(<<>>), pos |-> pos + 1]

\* self.0.iter_mut().find(|(i, _)| *i == id): the index of the first entry
\* with identity id, or 0.
Find(log, id) ==
    IF \E i \in 1..Len(log) : log[i][1] = id
    THEN CHOOSE i \in 1..Len(log) : log[i][1] = id /\ \A j \in 1..(i - 1) : log[j][1] # id
    ELSE 0

\* Upsert without the lookup: every message is pushed.
UpsertAlwaysPush(log, id, new) == Append(log, <<id, new>>)

\* Upsert that moves the entry found to the end instead of updating it in place.
UpsertMoveToEnd(log, id, new) ==
    LET i == Find(log, id) IN
    IF i # 0
    THEN Append(SubSeq(log, 1, i - 1) \o SubSeq(log, i + 1, Len(log)), <<id, new>>)
    ELSE Append(log, <<id, new>>)

\* Lines 80-84: overwrite the payload of the entry found, or push (id, new).
Upsert(log, id, new) ==
    IF Find(log, id) # 0
    THEN [log EXCEPT ![Find(log, id)] = <<id, new>>]
    ELSE Append(log, <<id, new>>)

\* The push without the is_empty test.
PushTextAlways(log, text) == Append(log, <<0, Text(text)>>)

\* self.0.push((0, OutputType::Text(text.to_string()))) if !text.is_empty()
PushText(log, text) == IF text # <<>> THEN Append(log, <<0, Text(text)>>) ELSE log

\* &text[1..] is in range: byte 1 exists and is a character boundary.
CanSlice1(text) == text # <<>> /\ LenUtf8(Head(text)) = 1

\* The field after a message taken whole, its newline kept.
TrailingKeepNewline(log, fields, pos) ==
    IF ~HasNext(fields, pos) THEN [log |-> log, panicked |-> FALSE, pos |-> pos]
    ELSE [log |-> PushText(log, fields[pos + 1]), panicked |-> FALSE, pos |-> pos + 1]

\* Lines 88-94: the field after a message, less its first byte, as text.
\* &text[1..] panics on the empty string and inside a multi-byte character.
Trailing(log, fields, pos) ==
    IF ~HasNext(fields, pos) THEN [log |-> log, panicked |-> FALSE, pos |-> pos]
    ELSE IF ~CanSlice1(fields[pos + 1])
    THEN [log |-> log, panicked |-> TRUE, pos |-> pos + 1]
    ELSE [log |-> PushText(log, Tail(fields[pos + 1])), panicked |-> FALSE, pos |-> pos + 1]

RECURSIVE ParseLoop(_, _, _)
\* The while loop of Output::parse (lines 77-95), from iterator position pos.
\* A panic leaves the log as the statements before it made it; why tells the
\* panic! of OutputType::parse ("tag") from the one of &text[1..] ("slice").
ParseLoop(log, fields, pos) ==
    IF ~HasNext(fields, pos) THEN [log |-> log, panicked |-> FALSE, why |-> "none"]
    ELSE
      LET id == ParseU64(fields[pos + 1])
          m  == IF id.ok THEN OutputTypeParse(fields, pos + 1)
                ELSE [res |-> "none", new |-> Text(<<>>), pos |-> pos + 1]
          l1 == IF m.res = "some" THEN Upsert(log, id.val, m.new) ELSE log
          t  == Trailing(l1, fields, m.pos)
      IN  IF m.res = "panic" THEN [log |-> log, panicked |-> TRUE, why |-> "tag"]
          ELSE IF t.panicked THEN [log |-> t.log, panicked |-> TRUE, why |-> "slice"]
          ELSE ParseLoop(t.log, fields, t.pos)

\* Output::parse(&mut self, str): the log afterwards, whether it panicked and why.
OutputParse(log, str) ==
    LET fields == Split(str) IN
    ParseLoop(PushText(log, fields[1]), fields, 1)

\* ------------------------------------------------------------------------
\* State
\* ------------------------------------------------------------------------

VARIABLES
    log,      \* Output.0: the entries <<identity, payload>>, in order
    status,   \* "ok", or "panicked" once a call of Output::parse has panicked
    stdout,   \* what the child process has printed and the GUI has not parsed yet
    hash,     \* DefaultHasher: the identity each key hashes to
    calls,    \* history: the producer calls that printed stdout, in order
    last,     \* history: the last operation, the log before it, and for a parse its input
    nwrites,  \* the number of producer calls made so far
    ui        \* the widget calls Output::update made on the Ui in the last frame

vars == <<log, status, stdout, hash, calls, last, nwrites, ui>>

\* Bounds of the model.
MaxWrites == 4
MaxWide == 2
MaxCalls == 3

\* The inputs of the deep specifications Spec and SpecProducer: two identities
\* (0 is the one Text entries are stored with), two progress bars that differ
\* in description and value, and two texts: a plain one, and a message written
\* by hand whose identity field "+012" reads as 12.
Ids == {0, 12}
Bars == {ProgressBar(<<"a">>, F32(5, 1)), ProgressBar(<<"b">>, F32(1, 0))}
Texts ==
    {<<"a">>,
     <<MAGIC, "+", "0", "1", "2", MAGIC>> \o PROGRESS_BAR_STR
        \o <<MAGIC, "b", MAGIC, "1", MAGIC, NL>>}

Payloads == {Text(s) : s \in Texts} \cup Bars

\* The keys the producer hashes: progress_bar hashes the description itself.
Keys == {b.text : b \in Bars}

\* The identities DefaultHasher may give a key. Its algorithm is unspecified:
\* any function of the key, the same for the whole run.
HashIds == {0, 7, 12}

NoParse ==
    [op |-> "none", pre |-> <<>>, chunk |-> <<>>, calls |-> <<>>, panic |-> "none",
     before |-> <<>>]

\* Output::new(), nothing printed yet.
Init ==
    /\ log = <<>>
    /\ status = "ok"
    /\ stdout = <<>>
    /\ hash = [k \in Keys |-> 12]
    /\ calls = <<>>
    /\ last = NoParse
    /\ nwrites = 0
    /\ ui = <<>>

\* The history record of one producer call: the function called and its
\* arguments (key: the id argument of progress_bar_with_id; id: the id
\* argument of send; payload: the description and value, or the text).
Call(fn, key, id, payload) == [fn |-> fn, key |-> key, id |-> id, payload |-> payload]

\* print!: the child's call c writes bytes to its stdout.
Write(c, bytes, bound) ==
    /\ status = "ok"
    /\ nwrites < bound
    /\ stdout' = stdout \o bytes
    /\ calls' = Append(calls, c)
    /\ nwrites' = nwrites + 1
    /\ last' = NoParse
    /\ UNCHANGED <<log, status, hash, ui>>

\* OutputType::send(self, id), called by the child.
Send(payload, id) == Write(Call("send", <<>>, id, payload), send(payload, id), MaxWrites)

\* The GUI calls Output::parse on everything the child has printed since the
\* last call.
Parse ==
    /\ status = "ok"
    /\ last.op # "parse" \/ stdout # <<>>
    /\ LET r == OutputParse(log, stdout) IN
         /\ log' = r.log
         /\ status' = IF r.panicked THEN "panicked" ELSE "ok"
    /\ last' = [op |-> "parse", pre |-> log, chunk |-> stdout, calls |-> calls,
                panic |-> OutputParse(log, stdout).why, before |-> <<>>]
    /\ stdout' = <<>>
    /\ calls' = <<>>
    /\ UNCHANGED <<hash, nwrites, ui>>

Next ==
    \/ \E payload \in Payloads, id \in Ids :
          (payload.kind = "Text" => id = 0) /\ Send(payload, id)
    \/ Parse

Spec == Init /\ [][Next]_vars

\* ------------------------------------------------------------------------
\* SpecWide: few calls, many inputs. The child prints at most MaxWide times:
\* messages over more identities, descriptions and values, plain text, and
\* text that carries markers (a String may hold any character).
\* ------------------------------------------------------------------------

WideIds == {0, 120}

WideDescs == {<<>>, <<EACUTE, NL>>}

WideValues == {F32(0, 0), F32(37, 2), Normalize(TRUE, 25, 1), NaN, Infinity(FALSE)}

PlainTexts == {<<>>, <<"a">>, <<NL>>, <<EACUTE, "b">>}

\* Value fields that are no float.
BadValues == {<<>>, <<"1", ".", "5", ".">>}

\* A message cut before its value field: the chunk ends with the description.
MissingValue(id, desc) ==
    SendData(<<U64ToString(id), PROGRESS_BAR_STR, desc>>)

\* A whole message whose value field is bad.
BadValueMessage(id, desc, bad) ==
    send_message(<<U64ToString(id), PROGRESS_BAR_STR, desc, bad>>)

\* Text that carries markers without being a well-formed message.
RawTexts ==
    {MissingValue(id, d) : id \in WideIds, d \in WideDescs}
    \cup {BadValueMessage(id, d, b) : id \in WideIds, d \in WideDescs, b \in BadValues}
    \cup {send_message(<<<<"x">>, PROGRESS_BAR_STR, <<"a">>, <<"1">>>>),
          send_message(<<<<"7">>, <<"t", "a", "g">>, <<"a">>, <<"1">>>>),
          SendData(<<<<"7">>, PROGRESS_BAR_STR, <<"a">>, <<"1">>, <<>>>>)}

WidePayloads ==
    {Text(s) : s \in PlainTexts \cup RawTexts}
    \cup {ProgressBar(d, v) : d \in WideDescs, v \in WideValues}

\* OutputType::send(self, id), called by the child, over the wide inputs.
SendWide(payload, id) ==
    Write(Call("send", <<>>, id, payload), send(payload, id), MaxWide)

NextWide ==
    \/ \E payload \in WidePayloads, id \in WideIds :
          (payload.kind = "Text" => id = 0) /\ SendWide(payload, id)
    \/ Parse

SpecWide == Init /\ [][NextWide]_vars

\* ------------------------------------------------------------------------
\* SpecProducer: the child calls progress_bar and progress_bar_with_id, at
\* most MaxCalls times, under any hash function.
\* ------------------------------------------------------------------------

InitProducer ==
    /\ log = <<>>
    /\ status = "ok"
    /\ stdout = <<>>
    /\ hash \in [Keys -> HashIds]
    /\ calls = <<>>
    /\ last = NoParse
    /\ nwrites = 0
    /\ ui = <<>>

\* What progress_bar_with_id(id, description, value) prints (lines 49-51):
\* h.finish() is hash[id].
WithIdBytes(id, description, value) ==
    send(ProgressBar(description, value), hash[id])

\* progress_bar that hashes the same key whatever the description.
ProgressBarBytesFixedKey(description, value) ==
    WithIdBytes(CHOOSE k \in Keys : TRUE, description, value)

\* What progress_bar(description, value) prints (line 25):
\* progress_bar_with_id(description, description, value).
ProgressBarBytes(description, value) == WithIdBytes(description, description, value)

\* The child calls progress_bar_with_id(id, description, value).
progress_bar_with_id(id, description, value) ==
    Write(Call("progress_bar_with_id", id, 0, ProgressBar(description, value)),
          WithIdBytes(id, description, value), MaxCalls)

\* The child calls progress_bar(description, value).
progress_bar(description, value) ==
    Write(Call("progress_bar", <<>>, 0, ProgressBar(description, value)),
          ProgressBarBytes(description, value), MaxCalls)

NextProducer ==
    \/ \E b \in Bars : progress_bar(b.text, b.value)
    \/ \E k \in Keys, b \in Bars : progress_bar_with_id(k, b.text, b.value)
    \/ Parse

SpecProducer == InitProducer /\ [][NextProducer]_vars

\* ------------------------------------------------------------------------
\* SpecRaw: the child prints at most MaxRaw pieces of a stream that need not
\* be well formed: whole messages, messages with a field that is wrong, and
\* the beginnings of messages, so that a chunk can end or go wrong anywhere.
\* ------------------------------------------------------------------------

MaxRaw == 3

RawIds == {7}

RawBars == {ProgressBar(<<"a">>, F32(5, 1))}

\* A whole message whose identity field is no number.
BadIdentityMessage ==
    send_message(<<<<"x">>, PROGRESS_BAR_STR, <<"a">>, <<"1">>>>)

\* A whole message whose tag is not PROGRESS_BAR_STR.
UnknownTagMessage ==
    send_message(<<<<"7">>, <<"t", "a", "g">>, <<"a">>, <<"1">>>>)

\* A message up to its closing marker, the newline not printed yet.
MessageNoNewline ==
    SendData(<<<<"7">>, PROGRESS_BAR_STR, <<"a">>, <<"1">>, <<>>>>)

\* A message up to its identity field, good or bad.
IdentityOnly == SendData(<<<<"7">>>>)

BadIdentityOnly == SendData(<<<<"x">>>>)

RawPieces ==
    {<<"h", "i">>, <<EACUTE>>, <<MAGIC>>,
     BadIdentityMessage, UnknownTagMessage, MessageNoNewline,
     IdentityOnly, BadIdentityOnly}

RawPayloads == {Text(s) : s \in RawPieces} \cup RawBars

\* OutputType::send(self, id), called by the child, over the raw pieces.
SendRaw(payload, id) ==
    Write(Call("send", <<>>, id, payload), send(payload, id), MaxRaw)

NextRaw ==
    \/ \E payload \in RawPayloads, id \in RawIds \cup {0} :
          (payload.kind = "Text" <=> id = 0) /\ SendRaw(payload, id)
    \/ Parse

SpecRaw == Init /\ [][NextRaw]_vars

\* ------------------------------------------------------------------------
\* SpecCut: the child prints a well-formed stream of at most MaxCut calls,
\* and the GUI, which reads the child's stdout as it comes, may call
\* Output::parse on any prefix of what is printed and then on the rest.
\* ------------------------------------------------------------------------

MaxCut == 2

CutPayloads == {Text(<<"h", "i">>)} \cup Bars

\* OutputType::send(self, id), called by the child.
SendCut(payload, id) ==
    Write(Call("send", <<>>, id, payload), send(payload, id), MaxCut)

\* What the calls cs of OutputType::send have printed.
Stream(cs) == Concat([i \in 1..Len(cs) |-> send(cs[i].payload, cs[i].id)])

\* A call of Output::parse with the log empty and nothing of the calls' output
\* read yet, on the first n characters the child has printed; the rest stays
\* unread, to be parsed by the next call.
ParsePrefix(n) ==
    /\ status = "ok"
    /\ log = <<>> /\ stdout = Stream(calls)
    /\ LET chunk == SubSeq(stdout, 1, n)
           r == OutputParse(log, chunk)
       IN /\ log' = r.log
          /\ status' = IF r.panicked THEN "panicked" ELSE "ok"
          /\ last' = [op |-> "cut", pre |-> log, chunk |-> chunk, calls |-> calls,
                      panic |-> r.why, before |-> <<>>]
    /\ stdout' = SubSeq(stdout, n + 1, Len(stdout))
    /\ UNCHANGED <<hash, calls, nwrites, ui>>

NextCut ==
    \/ \E payload \in CutPayloads, id \in RawIds \cup {0} :
          (payload.kind = "Text" <=> id = 0) /\ SendCut(payload, id)
    \/ \E n \in 1..(Len(stdout) - 1) : ParsePrefix(n)
    \/ Parse

SpecCut == Init /\ [][NextCut]_vars

\* ------------------------------------------------------------------------
\* Rendering: cansi::categorise_text, LinkFinder::spans, format_output and
\* Output::update. The two library functions are modelled on the texts of
\* SpecRender: SGR escapes ESC [ n ; ... m whose every sequence is a reset
\* or follows one, and words set apart by single spaces.
\* ------------------------------------------------------------------------

ESC == "U+001B"

Colors == <<"Black", "Red", "Green", "Yellow", "Blue", "Magenta", "Cyan", "White">>

\* cansi's style when no escape has been read: white on black, nothing else.
SgrDefault ==
    [fg |-> "White", bg |-> "Black", intensity |-> "Normal",
     italic |-> FALSE, underline |-> FALSE, strikethrough |-> FALSE]

RECURSIVE SplitOn(_, _, _)
\* s split at the character sep, cur the part being accumulated.
SplitOn(s, sep, cur) ==
    IF s = <<>> THEN <<cur>>
    ELSE IF Head(s) = sep THEN <<cur>> \o SplitOn(Tail(s), sep, <<>>)
    ELSE SplitOn(Tail(s), sep, Append(cur, Head(s)))

\* The style after one SGR parameter: 0 resets, 1 bold, 2 faint, 3 italic,
\* 4 underline, 9 strikethrough, 30-37 foreground, 40-47 background, 90-97
\* bright foreground, 100-107 bright background; others are left out.
AdjustSgr(sgr, param) ==
    IF param = <<>> \/ ~IsDigits(param) \/ Len(param) > 3 THEN sgr
    ELSE LET n == DigitsVal(param, 0) IN
         CASE n = 0 -> SgrDefault
           [] n = 1 -> [sgr EXCEPT !.intensity = "Bold"]
           [] n = 2 -> [sgr EXCEPT !.intensity = "Faint"]
           [] n = 3 -> [sgr EXCEPT !.italic = TRUE]
           [] n = 4 -> [sgr EXCEPT !.underline = TRUE]
           [] n = 9 -> [sgr EXCEPT !.strikethrough = TRUE]
           [] n \in 30..37 -> [sgr EXCEPT !.fg = Colors[n - 29]]
           [] n \in 40..47 -> [sgr EXCEPT !.bg = Colors[n - 39]]
           [] n \in 90..97 -> [sgr EXCEPT !.fg = "Bright" \o Colors[n - 89]]
           [] n \in 100..107 -> [sgr EXCEPT !.bg = "Bright" \o Colors[n - 99]]
           [] OTHER -> sgr

RECURSIVE FoldSgr(_, _)
FoldSgr(sgr, params) ==
    IF params = <<>> THEN sgr ELSE FoldSgr(AdjustSgr(sgr, Head(params)), Tail(params))

\* The style an escape sequence with the parameter string ps sets.
HandleSeq(ps) == FoldSgr(SgrDefault, SplitOn(ps, ";", <<>>))

\* The escape sequence at the head of s ends at its first "m": its length, or
\* 0 when s does not begin with ESC [ parameters m.
SeqLen(s) ==
    IF Len(s) >= 3 /\ s[1] = ESC /\ s[2] = "[" /\ IndexOf(s, {"m"}) # 0
       /\ \A i \in 3..(IndexOf(s, {"m"}) - 1) : IsDigit(s[i]) \/ s[i] = ";"
    THEN IndexOf(s, {"m"})
    ELSE 0

\* A CategorisedSlice: the text of a run and its style.
Slice(text, sgr) ==
    [text |-> text, fg_colour |-> sgr.fg, bg_colour |-> sgr.bg,
     intensity |-> sgr.intensity, italic |-> sgr.italic,
     underline |-> sgr.underline, strikethrough |-> sgr.strikethrough]

RECURSIVE CategoriseFrom(_, _, _)
\* The runs of s, cur the run being accumulated under style sgr: an escape
\* sequence ends the run (empty runs are left out) and sets the style.
CategoriseFrom(s, sgr, cur) ==
    LET done == IF cur = <<>> THEN <<>> ELSE <<Slice(cur, sgr)>> IN
    IF s = <<>> THEN done
    ELSE IF SeqLen(s) # 0
    THEN done \o CategoriseFrom(SubSeq(s, SeqLen(s) + 1, Len(s)),
                                HandleSeq(SubSeq(s, 3, SeqLen(s) - 1)), <<>>)
    ELSE CategoriseFrom(Tail(s), sgr, Append(cur, Head(s)))

\* cansi::categorise_text(text)
categorise_text(text) == CategoriseFrom(text, SgrDefault, <<>>)

Letters == {"a", "b", "c", "d", "e", "h", "i", "s"}

\* The index at which the characters sub begin in s, or 0.
Search(s, sub) ==
    LET at == {i \in 1..(Len(s) - Len(sub) + 1) : SubSeq(s, i, i + Len(sub) - 1) = sub} IN
    IF at = {} THEN 0 ELSE CHOOSE i \in at : \A j \in at : i <= j

\* The word is a URL: a scheme of letters, "://" and a host.
IsUrl(word) ==
    LET i == Search(word, <<":", "/", "/">>) IN
    /\ i > 1
    /\ \A j \in 1..(i - 1) : word[j] \in Letters
    /\ i + 3 <= Len(word)
    /\ word[i + 3] \in Letters

\* The word is an e-mail address: a local part, "@" and a domain with a dot.
IsEmail(word) ==
    LET i == IndexOf(word, {"@"}) IN
    /\ i > 1
    /\ \A j \in 1..(i - 1) : word[j] \in Letters
    /\ LET dom == SubSeq(word, i + 1, Len(word)) IN
         /\ \A j \in 1..Len(dom) : dom[j] \in Letters \cup {"."}
         /\ IndexOf(dom, {"."}) > 1
         /\ dom[Len(dom)] # "."

LinkKind(word) == IF IsUrl(word) THEN "Url" ELSE IF IsEmail(word) THEN "Email" ELSE "None"

\* A Span of linkify: its text and its kind, "None" for the text between links.
Span(text, kind) == [text |-> text, kind |-> kind]

RECURSIVE SpansFrom(_, _)
\* The spans of s, plain the text before s that is in no link: a word that
\* is a link is a span, and the text between two links is a span when it is
\* not empty.
SpansFrom(s, plain) ==
    LET done == IF plain = <<>> THEN <<>> ELSE <<Span(plain, "None")>> IN
    IF s = <<>> THEN done
    ELSE IF Head(s) = " " THEN SpansFrom(Tail(s), Append(plain, " "))
    ELSE LET sp   == IndexOf(s, {" "})
             n    == IF sp = 0 THEN Len(s) ELSE sp - 1
             word == SubSeq(s, 1, n)
             rest == SubSeq(s, n + 1, Len(s))
         IN  IF LinkKind(word) # "None"
             THEN done \o <<Span(word, LinkKind(word))>> \o SpansFrom(rest, <<>>)
             ELSE SpansFrom(rest, plain \o word)

\* LinkFinder::new().spans(text)
spans(text) == SpansFrom(text, <<>>)

\* ansi_color_to_egui (lines 209-228): the Color32 of an ANSI colour.
ansi_color_to_egui(color) ==
    CASE color = "Black" -> <<0, 0, 0>>
      [] color = "Red" -> <<205, 49, 49>>
      [] color = "Green" -> <<13, 188, 121>>
      [] color = "Yellow" -> <<229, 229, 16>>
      [] color = "Blue" -> <<36, 114, 200>>
      [] color = "Magenta" -> <<188, 63, 188>>
      [] color = "Cyan" -> <<17, 168, 205>>
      [] color = "White" -> <<229, 229, 229>>
      [] color = "BrightBlack" -> <<102, 102, 102>>
      [] color = "BrightRed" -> <<241, 76, 76>>
      [] color = "BrightGreen" -> <<35, 209, 139>>
      [] color = "BrightYellow" -> <<245, 245, 67>>
      [] color = "BrightBlue" -> <<59, 142, 234>>
      [] color = "BrightMagenta" -> <<214, 112, 214>>
      [] color = "BrightCyan" -> <<41, 184, 219>>
      [] color = "BrightWhite" -> <<229, 229, 229>>

\* The Label of lines 169-194 for a span of a run.
StyledLabel(slice, span) ==
    [w |-> "label",
     text |-> span.text,
     text_color |-> ansi_color_to_egui(slice.fg_colour),
     background_color |-> IF slice.bg_colour # "Black"
                          THEN ansi_color_to_egui(slice.bg_colour) ELSE <<>>,
     italics |-> slice.italic,
     underline |-> slice.underline,
     strikethrough |-> slice.strikethrough,
     strong |-> slice.intensity = "Bold",
     weak |-> slice.intensity = "Faint"]

\* format_output that gives a link the Label of its run instead of a
\* hyperlink.
FormatSpanStyledLink(slice, span) == StyledLabel(slice, span)

\* The match of lines 163-196: the widget added for one span of a run.
FormatSpan(slice, span) ==
    IF span.kind = "Url"
    THEN [w |-> "hyperlink", text |-> span.text, url |-> span.text]
    ELSE IF span.kind = "Email"
    THEN [w |-> "hyperlink_to", text |-> span.text,
          url |-> <<"m", "a", "i", "l", "t", "o", ":">> \o span.text]
    ELSE StyledLabel(slice, span)

\* The inner loop of format_output (line 162) for one run.
FormatSlice(slice) ==
    LET sp == spans(slice.text) IN [j \in 1..Len(sp) |-> FormatSpan(slice, sp[j])]

\* format_output(ui, text): one horizontal_wrapped group holding the widgets
\* of the runs, in order. (The item spacing it sets to zero for the group is
\* put back at line 200.)
format_output(text) ==
    LET runs == categorise_text(text) IN
    [w |-> "horizontal_wrapped",
     children |-> Concat([k \in 1..Len(runs) |-> FormatSlice(runs[k])])]

\* The match of lines 100-105: the widget added for one entry.
DrawEntry(entry) ==
    IF entry[2].kind = "Text" THEN format_output(entry[2].text)
    ELSE [w |-> "ProgressBar", progress |-> entry[2].value,
          text |-> entry[2].text, animate |-> TRUE]

\* The walk of Output::update from the last entry to the first.
DrawReversed(l) == [i \in 1..Len(l) |-> DrawEntry(l[Len(l) + 1 - i])]

\* The loop of Output::update (line 99): the widgets added to the Ui.
Draw(l) == [i \in 1..Len(l) |-> DrawEntry(l[i])]

\* ------------------------------------------------------------------------
\* SpecRender: the child prints at most MaxRender times, texts with styles
\* and links and progress bars, and the GUI parses and draws frames.
\* ------------------------------------------------------------------------

MaxRender == 2

\* The escape sequence with parameter string ps.
Sgr(ps) == <<ESC, "[">> \o ps \o <<"m">>

Url == <<"a", "b", ":", "/", "/", "c", ".", "d">>

Email == <<"a", "@", "c", ".", "d">>

RenderTexts ==
    {<<"h", "i">>,
     Url,
     Sgr(<<"3", "1">>) \o <<"s", "e", "e", " ">> \o Url \o <<" ", "h", "i">>,
     Sgr(<<"1", ";", "3", "1">>) \o <<"a">> \o Sgr(<<"0">>) \o <<"b">>,
     Sgr(<<"3", ";", "4">>) \o Email \o <<" ", "a">>,
     Sgr(<<"2", ";", "9", ";", "4", "2">>) \o <<"c", " ">> \o Url}

RenderPayloads == {Text(s) : s \in RenderTexts} \cup RawBars

\* OutputType::send(self, id), called by the child.
SendRender(payload, id) ==
    Write(Call("send", <<>>, id, payload), send(payload, id), MaxRender)

\* The GUI draws a frame: Output::update(&mut self, ui). The history keeps
\* the log before the call and, when the operation before was a frame too,
\* the widgets of that frame.
Update ==
    /\ status = "ok"
    /\ ui' = Draw(log)
    /\ last' = [op |-> "update", pre |-> log, chunk |-> <<>>, calls |-> <<>>,
                panic |-> "none",
                before |-> IF last.op = "update" THEN <<ui>> ELSE <<>>]
    /\ UNCHANGED <<log, status, stdout, hash, calls, nwrites>>

NextRender ==
    \/ \E payload \in RenderPayloads, id \in RawIds \cup {0} :
          (payload.kind = "Text" <=> id = 0) /\ SendRender(payload, id)
    \/ Parse
    \/ Update

SpecRender == Init /\ [][NextRender]_vars

\* ------------------------------------------------------------------------
\* Properties of decoding well-formed streams (specification Spec)
\* ------------------------------------------------------------------------

IsProgressBar(c) == c.payload.kind = "ProgressBar"

IsText(c) == c.payload.kind = "Text"

\* The last operation was a call of Output::parse that returned normally.
Parsed == last.op = "parse" /\ status = "ok"

\* The positions of the log whose entry has identity id.
Positions(l, id) == {i \in 1..Len(l) : l[i][1] = id}

\* The position Output::parse gives a message of identity id in log l: that of
\* the first entry of that identity, or a new one at the end.
UpsertPosition(l, id) ==
    IF Positions(l, id) # {}
    THEN CHOOSE i \in Positions(l, id) : \A j \in Positions(l, id) : i <= j
    ELSE Len(l) + 1

\* C1: decoding two progress-bar messages with the same identity one after the
\* other, whatever the log before, leaves exactly one entry with that identity,
\* holding the second message's description and value, at the position the
\* first message's entry took (where the identity already was, else the end of
\* the prior log).
C1_IdempotentUpsert ==
    (/\ Parsed
     /\ Len(last.calls) = 2
     /\ IsProgressBar(last.calls[1]) /\ IsProgressBar(last.calls[2])
     /\ last.calls[1].id = last.calls[2].id)
    => LET id  == last.calls[2].id
           pos == UpsertPosition(last.pre, id)
       IN  /\ Positions(log, id) = {pos}
           /\ log[pos] = <<id, last.calls[2].payload>>

\* C1, for the identities other than 0 (the identity of Text entries): the
\* same statement.
C1_NonZeroIdentity ==
    (Len(last.calls) = 2 /\ last.calls[2].id = 0) \/ C1_IdempotentUpsert

\* C2: in every reachable log no two entries share a non-zero identity, and
\* every Text entry has identity 0.
C2_UniqueIdentity ==
    /\ \A i, j \in 1..Len(log) : (i # j /\ log[i][1] = log[j][1]) => log[i][1] = 0
    /\ \A i \in 1..Len(log) : log[i][2].kind = "Text" => log[i][1] = 0

\* C2's case: one chunk carried two messages of one non-zero identity, and the
\* log holds a Text entry beside the progress bar.
C2_Witness ==
    /\ Parsed
    /\ \E i, j \in 1..Len(last.calls) :
          /\ i < j
          /\ IsProgressBar(last.calls[i]) /\ IsProgressBar(last.calls[j])
          /\ last.calls[i].id = last.calls[j].id /\ last.calls[i].id # 0
    /\ \E i \in 1..Len(log) : log[i][2].kind = "Text"
    /\ \E i \in 1..Len(log) : log[i][2].kind = "ProgressBar"

\* C3: a Text entry of the log is left as it was by every later call of
\* Output::parse, whatever the chunk: same position, same payload, still Text.
C3_TextImmutable ==
    last.op = "parse" =>
        \A i \in 1..Len(last.pre) :
            last.pre[i][2].kind = "Text" => (i <= Len(log) /\ log[i] = last.pre[i])

\* C4: a step never shortens the log, and leaves at every position of the old
\* log an entry of the same identity: nothing is removed or reordered, and what
\* is new comes after all that was there.
C4_GrowsInOrder ==
    [][/\ Len(log') >= Len(log)
       /\ \A i \in 1..Len(log) : log'[i][1] = log[i][1]]_vars

\* C4's case: one call of Output::parse updated an entry the log already had
\* and appended a new one after a non-empty log.
C4_Witness ==
    /\ Parsed
    /\ Len(last.pre) >= 2
    /\ Len(log) > Len(last.pre)
    /\ \E i \in 1..(Len(last.pre) - 1) : log[i] # last.pre[i]

\* Plain text: no marker in it.
MarkerFree(s) == \A i \in 1..Len(s) : s[i] # MAGIC

\* C7: non-empty text, one encoded message, non-empty text, decoded into an
\* empty log, give exactly the three entries Text, ProgressBar, Text in that
\* order; and a later message with the same identity changes the middle entry's
\* payload and nothing else.
C7_InterleavingOrder ==
    /\ (/\ last.op = "parse" /\ last.pre = <<>>
         /\ Len(last.calls) = 3
         /\ IsText(last.calls[1]) /\ IsProgressBar(last.calls[2]) /\ IsText(last.calls[3])
         /\ last.calls[1].payload.text # <<>> /\ MarkerFree(last.calls[1].payload.text)
         /\ last.calls[3].payload.text # <<>> /\ MarkerFree(last.calls[3].payload.text))
        => /\ status = "ok"
           /\ log = << <<0, last.calls[1].payload>>,
                       <<last.calls[2].id, last.calls[2].payload>>,
                       <<0, last.calls[3].payload>> >>
    /\ (/\ last.op = "parse" /\ Len(last.pre) = 3
         /\ last.pre[1][2].kind = "Text" /\ last.pre[2][2].kind = "ProgressBar"
         /\ last.pre[3][2].kind = "Text"
         /\ Len(last.calls) = 1 /\ IsProgressBar(last.calls[1])
         /\ last.calls[1].id = last.pre[2][1])
        => /\ status = "ok"
           /\ log = << last.pre[1], <<last.calls[1].id, last.calls[1].payload>>,
                       last.pre[3] >>

\* C7, for the identities other than 0: the same statement.
C7_NonZeroIdentity ==
    (Len(last.calls) = 3 /\ last.calls[2].id = 0) \/ C7_InterleavingOrder

\* ------------------------------------------------------------------------
\* Properties of encoding and of decoding any text (specification SpecWide)
\* ------------------------------------------------------------------------

\* C5: send(identity) of ProgressBar(description, value), the description
\* without marker, decoded into an empty log, gives exactly the one entry
\* (identity, ProgressBar(description, value)), so no Text entry.
C5_RoundTrip ==
    (/\ last.op = "parse" /\ last.pre = <<>>
     /\ Len(last.calls) = 1 /\ IsProgressBar(last.calls[1])
     /\ MarkerFree(last.calls[1].payload.text))
    => /\ status = "ok"
       /\ log = << <<last.calls[1].id, last.calls[1].payload>> >>

\* C5's case: a message with a three-digit identity, a two-character
\* description and the value 0.37 has been sent and decoded into an empty log.
C5_Witness ==
    /\ Parsed /\ last.pre = <<>>
    /\ last.calls = <<Call("send", <<>>, 120, ProgressBar(<<EACUTE, NL>>, F32(37, 2)))>>
    /\ Len(log) = 1

\* The premise of C6: a chunk without marker was decoded into an empty log.
PlainChunkDecoded == last.op = "parse" /\ last.pre = <<>> /\ MarkerFree(last.chunk)

\* C6 as stated: every chunk without marker, decoded into an empty log, gives
\* exactly one entry, the Text entry of identity 0 holding the chunk, and
\* decoding does not fail.
C6_OneEntryForEveryChunk ==
    PlainChunkDecoded => (status = "ok" /\ log = << <<0, Text(last.chunk)>> >>)

\* C6, amended: every non-empty chunk without marker, decoded into an empty
\* log, gives exactly one entry, the Text entry of identity 0 holding the
\* chunk; the empty chunk gives no entry; decoding fails on neither.
C6_PlainTextPassThrough ==
    PlainChunkDecoded =>
        /\ status = "ok"
        /\ log = IF last.chunk = <<>> THEN <<>> ELSE << <<0, Text(last.chunk)>> >>

\* C6's case: a chunk of several characters, a newline and a two-byte
\* character among them and no marker, was decoded into an empty log.
C6_Witness ==
    /\ PlainChunkDecoded /\ status = "ok"
    /\ Len(last.chunk) >= 3
    /\ Len(last.calls) = 2
    /\ \E i \in 1..Len(last.chunk) : last.chunk[i] = NL
    /\ \E i \in 1..Len(last.chunk) : last.chunk[i] = EACUTE
    /\ Len(log) = 1

\* Whether out is what the wire grammar asks for call c: for a progress bar
\* six fields around five markers: nothing, the identity in decimal, the tag,
\* the description, the value in decimal, the newline; for text, the text.
WireOK(out, c) ==
    IF IsText(c) THEN out = c.payload.text
    ELSE LET f == Split(out) IN
         /\ Len(f) = 6
         /\ f[1] = <<>>
         /\ IsDigits(f[2]) /\ ParseU64(f[2]) = [ok |-> TRUE, val |-> c.id]
         /\ f[3] = PROGRESS_BAR_STR
         /\ f[4] = c.payload.text
         /\ ParseF32(f[5]) = [ok |-> TRUE, val |-> c.payload.value]
         /\ f[6] = <<NL>>

\* C9: each call of send appends to stdout exactly: for ProgressBar, marker,
\* decimal identity, marker, progress-bar, marker, description, marker, decimal
\* value, marker, newline; for Text(s), s and no marker of its own.
C9_WireGrammar ==
    [][nwrites' = nwrites + 1 =>
         /\ Len(stdout') >= Len(stdout)
         /\ SubSeq(stdout', 1, Len(stdout)) = stdout
         /\ WireOK(SubSeq(stdout', Len(stdout) + 1, Len(stdout')), calls'[Len(calls')])]_vars

\* C9's case: a text and then a progress bar of identity 120 and value -2.5
\* have been sent and not yet parsed.
C9_Witness ==
    /\ Len(calls) = 2
    /\ IsText(calls[1]) /\ calls[1].payload.text # <<>>
    /\ IsProgressBar(calls[2]) /\ calls[2].id = 120
    /\ calls[2].payload.value = Normalize(TRUE, 25, 1)
    /\ Len(stdout) > Len(calls[1].payload.text)

\* C10: a progress-bar message with a valid identity whose value field is
\* missing (the chunk ends with the description) or is no float decodes
\* without failure to ProgressBar(description, 0.0), upserted at its identity,
\* every other entry left as it was.
C10_ValueDefault ==
    \A id \in WideIds, d \in WideDescs :
        (/\ last.op = "parse"
         /\ \/ last.chunk = MissingValue(id, d)
            \/ \E b \in BadValues : last.chunk = BadValueMessage(id, d, b))
        => LET pos == UpsertPosition(last.pre, id) IN
           /\ status = "ok"
           /\ Len(log) = IF pos > Len(last.pre) THEN pos ELSE Len(last.pre)
           /\ log[pos] = <<id, ProgressBar(d, F32Default)>>
           /\ \A i \in 1..Len(last.pre) : i # pos => log[i] = last.pre[i]

\* C10's case: a whole message of identity 120 with the value field "1.5."
\* was decoded into a log that held that identity with a value other than 0.0.
C10_Witness ==
    /\ Parsed
    /\ last.chunk = BadValueMessage(120, <<EACUTE, NL>>, <<"1", ".", "5", ".">>)
    /\ \E i \in 1..Len(last.pre) :
          last.pre[i][1] = 120 /\ last.pre[i][2].value # F32Default
    /\ \E i \in 1..Len(log) : log[i] = <<120, ProgressBar(<<EACUTE, NL>>, F32Default)>>

\* ------------------------------------------------------------------------
\* Properties of the producer functions (specification SpecProducer)
\* ------------------------------------------------------------------------

\* What the wire carries for producer call c, were progress_bar(d, v) the call
\* progress_bar_with_id(d, d, v).
ExpectedBytes(c) ==
    IF c.fn = "progress_bar"
    THEN WithIdBytes(c.payload.text, c.payload.text, c.payload.value)
    ELSE WithIdBytes(c.key, c.payload.text, c.payload.value)

\* The calls cs are calls of progress_bar_with_id with the one id key k.
SameKeyCalls(cs, k) ==
    /\ cs # <<>>
    /\ \A i \in 1..Len(cs) : cs[i].fn = "progress_bar_with_id" /\ cs[i].key = k

\* C8: the stream of any calls of progress_bar_with_id with one id key,
\* decoded in one call or call by call, is exactly one ProgressBar entry, that
\* of the key's identity with the last call's description and value; and
\* progress_bar(d, v) prints what progress_bar_with_id(d, d, v) prints.
C8_StableIdentity ==
    /\ \A k \in Keys :
          (/\ last.op = "parse"
           /\ SameKeyCalls(last.calls, k)
           /\ \/ last.pre = <<>>
              \/ /\ Len(last.pre) = 1
                 /\ last.pre[1][1] = hash[k]
                 /\ last.pre[1][2].kind = "ProgressBar")
          => /\ status = "ok"
             /\ log = << <<hash[k], last.calls[Len(last.calls)].payload>> >>
    /\ stdout = Concat([i \in 1..Len(calls) |-> ExpectedBytes(calls[i])])

\* C8's case: three calls with one key and changing descriptions and values
\* were decoded, the first two in one chunk and the third in the next.
C8_Witness ==
    /\ Parsed
    /\ nwrites = 3
    /\ \E k \in Keys :
          /\ SameKeyCalls(last.calls, k)
          /\ Len(last.calls) = 1
          /\ Len(last.pre) = 1 /\ last.pre[1][1] = hash[k]
          /\ last.pre[1][2] # last.calls[1].payload
          /\ last.pre[1][2].text # last.calls[1].payload.text
          /\ last.calls[1].payload.text # k

\* ------------------------------------------------------------------------
\* Properties of decoding streams that are not well formed (SpecRaw)
\* ------------------------------------------------------------------------

\* The field reads as an identity: id.parse() of line 78 is Ok.
IsIdentity(field) == ParseU64(field).ok

\* The texts of the Text entries of a log, in order.
TextList(l) ==
    LET RECURSIVE Go(_)
        Go(i) == IF i > Len(l) THEN <<>>
                 ELSE IF l[i][2].kind = "Text" THEN <<l[i][2].text>> \o Go(i + 1)
                 ELSE Go(i + 1)
    IN Go(1)

\* The ProgressBar entries of a log, in order.
BarList(l) ==
    LET RECURSIVE Go(_)
        Go(i) == IF i > Len(l) THEN <<>>
                 ELSE IF l[i][2].kind = "ProgressBar" THEN <<l[i]>> \o Go(i + 1)
                 ELSE Go(i + 1)
    IN Go(1)

\* C11: a chunk whose first field in identity position does not read as an
\* identity is decoded without a panic, whatever fields follow it. (No field
\* of the chunks taken here reads as an identity, so that no tag is read and
\* the panic of an unknown tag is out of the question.)
C11_BadIdentityNeverCrashes ==
    (/\ last.op = "parse"
     /\ LET f == Split(last.chunk) IN
          /\ Len(f) >= 2
          /\ \A i \in 2..Len(f) : ~IsIdentity(f[i]))
    => status = "ok"

RECURSIVE IdentityPositions(_, _)
\* The fields of a chunk that stand in identity position, from field p on:
\* the field after the leading text, the field after the text that follows a
\* message (identity, tag, description, value, text), and the field after the
\* text that follows a bad identity.
IdentityPositions(f, p) ==
    IF p > Len(f) THEN {}
    ELSE {p} \cup
         (IF ~IsIdentity(f[p]) THEN IdentityPositions(f, p + 2)
          ELSE IF p < Len(f) /\ f[p + 1] = PROGRESS_BAR_STR
               THEN IdentityPositions(f, p + 5)
               ELSE {})

\* The chunk without its last field and the marker before it.
WithoutLastField(chunk) ==
    LET f == Split(chunk) IN
    SubSeq(chunk, 1, Len(chunk) - Len(f[Len(f)]) - 1)

\* C12: when a field in identity position reads as an identity and the field
\* after it is a tag other than progress-bar, the call of Output::parse
\* panics (at that tag when it is the first message of the chunk); when the
\* identity is the last field of the chunk there is no panic for it and no
\* entry for it: the call ends as it does on the chunk without that field,
\* and on a chunk of a text and an identity it returns with the text alone.
C12_UnknownTagFatal ==
    last.op = "parse" =>
    LET f == Split(last.chunk)
        n == Len(f)
    IN  /\ (\E p \in IdentityPositions(f, 2) :
               p < n /\ IsIdentity(f[p]) /\ f[p + 1] # PROGRESS_BAR_STR)
           => status = "panicked"
        /\ (n >= 3 /\ IsIdentity(f[2]) /\ f[3] # PROGRESS_BAR_STR)
           => (status = "panicked" /\ last.panic = "tag")
        /\ (n \in IdentityPositions(f, 2) /\ IsIdentity(f[n]))
           => LET r == OutputParse(last.pre, WithoutLastField(last.chunk)) IN
                /\ log = r.log
                /\ (status = "panicked") = r.panicked
        /\ (n = 2 /\ IsIdentity(f[2]))
           => /\ status = "ok"
              /\ log = last.pre \o (IF f[1] = <<>> THEN <<>> ELSE << <<0, Text(f[1])>> >>)

\* C12's case: a chunk in which a whole message is followed by a message of
\* unknown tag has made the call panic at that tag, the first message decoded.
C12_Witness ==
    /\ last.op = "parse"
    /\ last.panic = "tag"
    /\ LET f == Split(last.chunk) IN
         /\ Len(f) > 7
         /\ f[3] = PROGRESS_BAR_STR
         /\ IsIdentity(f[7]) /\ f[8] # PROGRESS_BAR_STR
    /\ BarList(log) # <<>>

\* C12's other case: a chunk that ends with an identity after a whole message
\* was decoded into that message, without a panic.
C12_LastFieldReached ==
    /\ Parsed
    /\ LET f == Split(last.chunk) IN
         /\ Len(f) = 7
         /\ f[3] = PROGRESS_BAR_STR
         /\ IsIdentity(f[7])
    /\ BarList(log) # <<>>

\* C14: no call of Output::parse takes a slice of a string out of its range
\* or inside a character.
C14_NoBoundsError == last.op = "parse" => last.panic # "slice"

\* The field without its leading newline, when it has one.
StripNewline(field) ==
    IF field # <<>> /\ Head(field) = NL THEN Tail(field) ELSE field

\* C15: the field after a message is added as one Text entry less exactly one
\* leading newline, nothing of a field that does not begin with a newline is
\* lost, and an empty remainder adds no entry. (The chunks taken here are one
\* whole message, nothing before it, and a field after it that begins with a
\* one-byte character.)
C15_TrailingText ==
    (/\ last.op = "parse"
     /\ LET f == Split(last.chunk) IN
          /\ Len(f) = 6
          /\ f[1] = <<>>
          /\ IsIdentity(f[2]) /\ f[3] = PROGRESS_BAR_STR
          /\ f[6] # <<>> /\ LenUtf8(Head(f[6])) = 1)
    => /\ status = "ok"
       /\ LET rest == StripNewline(Split(last.chunk)[6]) IN
            TextList(log) = TextList(last.pre) \o (IF rest = <<>> THEN <<>> ELSE <<rest>>)

\* C16: the fields of a message whose identity field does not read as an
\* identity (tag, description, value) make no Text entry and change no
\* ProgressBar entry. (The chunk taken here is such a message alone, whole,
\* with its final newline.)
C16_BadMessageDropped ==
    (/\ last.op = "parse"
     /\ LET f == Split(last.chunk) IN
          /\ Len(f) = 6
          /\ f[1] = <<>>
          /\ ~IsIdentity(f[2])
          /\ f[6] = <<NL>>)
    => /\ TextList(log) = TextList(last.pre)
       /\ BarList(log) = BarList(last.pre)

\* C17: a call of Output::parse that panics at an unknown tag leaves the log
\* as it was before the call.
C17_NoPartialState ==
    (last.op = "parse" /\ last.panic = "tag") => log = last.pre

\* ------------------------------------------------------------------------
\* Decoding a stream in two chunks (specification SpecCut)
\* ------------------------------------------------------------------------

\* The last call of Output::parse read the rest of a stream whose beginning
\* the call before it had read, the log empty before the two.
CutDecoded == last.op = "parse" /\ Len(last.chunk) < Len(Stream(last.calls))

\* C19: a well-formed stream cut at any position and decoded by two calls of
\* Output::parse, one for each part, is decoded without a panic to the same
\* ProgressBar entries and the same concatenated text as by one call on the
\* whole stream.
C19_ChunkBoundaryIndependence ==
    /\ last.op = "cut" => status = "ok"
    /\ CutDecoded =>
         LET whole == OutputParse(<<>>, Stream(last.calls)) IN
           /\ status = "ok"
           /\ BarList(log) = BarList(whole.log)
           /\ Concat(TextList(log)) = Concat(TextList(whole.log))

\* The positions of a stream at which no message is cut: the ends of the
\* calls' outputs and the positions inside the text of a Text call.
RECURSIVE BoundaryCuts(_, _)
BoundaryCuts(cs, before) ==
    IF cs = <<>> THEN {}
    ELSE LET n == Len(send(Head(cs).payload, Head(cs).id)) IN
         (IF Head(cs).payload.kind = "Text" THEN (before + 1)..(before + n)
          ELSE {before + n})
         \cup BoundaryCuts(Tail(cs), before + n)

\* The part of C19 that holds: no panic and the same result when the cut is at
\* no position inside a message.
C19_BoundaryCut ==
  LET n == Len(Stream(last.calls)) - Len(last.chunk) IN
    /\ (last.op = "cut" /\ Len(last.chunk) \in BoundaryCuts(last.calls, 0))
         => status = "ok"
    /\ (CutDecoded /\ n \in BoundaryCuts(last.calls, 0)) =>
         LET whole == OutputParse(<<>>, Stream(last.calls)) IN
           /\ status = "ok"
           /\ BarList(log) = BarList(whole.log)
           /\ Concat(TextList(log)) = Concat(TextList(whole.log))

\* ------------------------------------------------------------------------
\* Properties of rendering (specification SpecRender)
\* ------------------------------------------------------------------------

\* The number of spans of the runs before run k.
SpansBefore(runs, k) ==
    LET RECURSIVE Go(_)
        Go(j) == IF j >= k THEN 0 ELSE Len(spans(runs[j].text)) + Go(j + 1)
    IN Go(1)

\* Token tok is what the formatter is to emit for span sp of run: a hyperlink
\* that has the span's text and no style for a URL, a hyperlink to mailto:
\* and the address for an e-mail address, and otherwise a label with the
\* span's text and the run's colour, intensity, italic, underline and
\* strikethrough.
TokenOf(tok, run, sp) ==
    /\ tok.text = sp.text
    /\ sp.kind = "Url" =>
         /\ tok.w = "hyperlink" /\ tok.url = sp.text
         /\ DOMAIN tok = {"w", "text", "url"}
    /\ sp.kind = "Email" =>
         /\ tok.w = "hyperlink_to"
         /\ tok.url = <<"m", "a", "i", "l", "t", "o", ":">> \o sp.text
         /\ DOMAIN tok = {"w", "text", "url"}
    /\ sp.kind = "None" =>
         /\ tok.w = "label"
         /\ tok.text_color = ansi_color_to_egui(run.fg_colour)
         /\ tok.strong = (run.intensity = "Bold")
         /\ tok.weak = (run.intensity = "Faint")
         /\ tok.italics = run.italic
         /\ tok.underline = run.underline
         /\ tok.strikethrough = run.strikethrough

\* C13: in a frame, the tokens drawn for a Text entry are, run after run and
\* span after span in the order of the text, a plain hyperlink for a URL, a
\* hyperlink to mailto: and the address for an e-mail address, and a label
\* that carries the run's style for any other span; the texts of a run's
\* tokens, put together, are the run's text.
C13_LinkCarveOut ==
    last.op = "update" =>
    \A i \in 1..Len(log) :
       log[i][2].kind = "Text" =>
       LET runs   == categorise_text(log[i][2].text)
           tokens == ui[i].children
       IN  /\ Len(tokens) = SpansBefore(runs, Len(runs) + 1)
           /\ \A k \in 1..Len(runs) :
                LET sp == spans(runs[k].text)
                    at == SpansBefore(runs, k)
                IN  /\ \A j \in 1..Len(sp) : TokenOf(tokens[at + j], runs[k], sp[j])
                    /\ Concat([j \in 1..Len(sp) |-> tokens[at + j].text]) = runs[k].text

\* C13's case: a frame was drawn of a text whose red run "see ab://c.d hi"
\* gave a red label, a hyperlink and a red label.
C13_Witness ==
    /\ last.op = "update"
    /\ \E i \in 1..Len(ui) :
          /\ ui[i].w = "horizontal_wrapped"
          /\ Len(ui[i].children) = 3
          /\ LET t == ui[i].children IN
               /\ t[1].w = "label" /\ t[1].text_color = ansi_color_to_egui("Red")
               /\ t[2].w = "hyperlink" /\ t[2].text = Url
               /\ t[3].w = "label" /\ t[3].text_color = ansi_color_to_egui("Red")

\* C18: a frame leaves the log as it was and adds one widget for each entry,
\* in the order of the log: for a ProgressBar entry a progress bar with the
\* description as its text and the value as its progress, for a Text entry
\* the tokens of the formatter; and a frame that follows a frame adds the
\* same widgets.
C18_RenderWalk ==
    last.op = "update" =>
      /\ log = last.pre
      /\ Len(ui) = Len(log)
      /\ \A i \in 1..Len(log) :
           /\ log[i][2].kind = "ProgressBar" =>
                /\ ui[i].w = "ProgressBar"
                /\ ui[i].text = log[i][2].text
                /\ ui[i].progress = log[i][2].value
           /\ log[i][2].kind = "Text" =>
                /\ ui[i].w = "horizontal_wrapped"
                /\ ui[i] = format_output(log[i][2].text)
      /\ last.before # <<>> => last.before[1] = ui

\* C18's case: a second frame was drawn of a log that holds a progress bar
\* after a text.
C18_Witness ==
    /\ last.op = "update"
    /\ last.before # <<>>
    /\ Len(log) = 2
    /\ log[1][2].kind = "Text" /\ log[2][2].kind = "ProgressBar"
    /\ ui[2].w = "ProgressBar"

====
